---- MODULE Spec2Model ----
(***************************************************************************)
(* InsightBridge: the two-tier insight resolution of queryAI               *)
(* (src/validation/aiServiceGemini.ts) and the local heuristic             *)
(* getMockResponse it falls back to.                                       *)
(*                                                                         *)
(* Conventions.  A JavaScript object is a function from its own property   *)
(* names to values; an optional value is a sequence of length 0            *)
(* (undefined) or 1.  A text is a sequence of chunks, each with a kind and *)
(* a length in characters.  A question is a sequence of words joined by    *)
(* single spaces.                                                          *)
(*                                                                         *)
(* The second half models ingestion (src/lib/dataParser.ts, the upload     *)
(* handler of src/components/FileUpload.tsx and the page state of          *)
(* src/app/page.tsx).  A cell is a tagged JavaScript value, a record is a  *)
(* function from its keys to cells.                                        *)
(***************************************************************************)
EXTENDS Integers, Sequences, FiniteSets, TLC

VARIABLES
    question,     \* queryAI's argument `question`
    data,         \* queryAI's argument `data` (a ParsedData)
    env,          \* the runtime environment the call runs in
    pc,           \* position of the queryAI call
    genAI,        \* the client returned by getGeminiAI, or "null"
    text,         \* response.text() of the remote call
    elapsed,      \* Date.now() - startTime when the remote result is built
    result,       \* the value the promise resolved with (optional)
    path,         \* terminal path that produced result
    cause,        \* why the local heuristic was entered
    remoteCalls,  \* number of model.generateContent calls of this queryAI call
    prompted,     \* whether generatePrompt/formatDataForAI ran in this call
    localSeen,    \* what an earlier call returned when no provider was configured
    file,         \* the file handed to handleFile (optional)
    upPc,         \* position of the handleFile call
    upError,      \* FileUpload's `error` state (optional message)
    isProcessing, \* FileUpload's `isProcessing` state
    activeData,   \* the page's `data` state (optional ParsedData)
    qualityIssues,\* the page's `qualityIssues`, computed on render
    sampleRows,   \* positions and rows of formatDataForAI's sample (optional)
    bestDelimiter,\* the delimiter parseTextToData handed to Papa.parse (optional)
    currentQuestion, \* the page's `currentQuestion` state (optional Question)
    isLoading,    \* the page's `isLoading` state
    history,      \* the page's `history` state
    newQuestion,  \* `newQuestion` of the handleQuestionSubmit call in flight (optional)
    now           \* the clock read by handleQuestionSubmit

queryVars == <<question, data, env, pc, genAI, text, elapsed, result, path, cause,
               remoteCalls, prompted, localSeen>>

ingestVars == <<file, upPc, upError, isProcessing, activeData, qualityIssues,
                sampleRows, bestDelimiter>>

pageVars == <<currentQuestion, isLoading, history, newQuestion, now>>

vars == <<question, data, env, pc, genAI, text, elapsed, result, path, cause,
          remoteCalls, prompted, localSeen, file, upPc, upError, isProcessing,
          activeData, qualityIssues, sampleRows, bestDelimiter, currentQuestion,
          isLoading, history, newQuestion, now>>

(***************************************************************************)
(* Bounds                                                                  *)
(***************************************************************************)
MaxWords == 2
MaxCols == 2
MaxRows == 21
MaxElapsed == 1
MaxDelims == 2
MaxQuestions == 2

(***************************************************************************)
(* Generic helpers                                                         *)
(***************************************************************************)
None == <<>>

Some(v) == <<v>>

\* { ...a, ...b } : own properties of a, overridden by those of b
Spread(a, b) ==
    [k \in (DOMAIN a) \cup (DOMAIN b) |-> IF k \in DOMAIN b THEN b[k] ELSE a[k]]

RECURSIVE SelectSeqBy(_, _)
\* Array.prototype.filter on columnTypes: the headers of type ty, in order
SelectSeqBy(pairs, ty) ==
    IF pairs = <<>> THEN <<>>
    ELSE IF Head(pairs)[2] = ty
         THEN <<Head(pairs)[1]>> \o SelectSeqBy(Tail(pairs), ty)
         ELSE SelectSeqBy(Tail(pairs), ty)

(***************************************************************************)
(* Datasets: the ParsedData values analyzeData can return                  *)
(***************************************************************************)
HeaderNames == <<"a", "b", "c", "d">>

\* The dataset analyzeData builds for r rows, columns typed by the sequence
\* tys, and m missing cells.
ParsedData(r, tys, m) ==
    LET headers == SubSeq(HeaderNames, 1, Len(tys))
        pairs == [i \in 1..Len(tys) |-> <<headers[i], tys[i]>>]
    IN [headers |-> headers,
        rowCount |-> r,
        columnTypes |-> [h \in {headers[i] : i \in 1..Len(tys)} |->
                            tys[CHOOSE i \in 1..Len(tys) : headers[i] = h]],
        summary |-> [totalRows |-> r,
                     totalColumns |-> Len(headers),
                     missingValues |-> m,
                     numericColumns |-> SelectSeqBy(pairs, "number"),
                     textColumns |-> SelectSeqBy(pairs, "string"),
                     dateColumns |-> SelectSeqBy(pairs, "date")]]

\* Missing-cell counts: none, and the two counts around the 10% threshold.
MissingCounts(r, h) ==
    {m \in {0, (r * h) \div 10, (r * h) \div 10 + 1} : m <= r * h}

\* Row counts below, at and above the small-sample threshold of 20 rows.
Datasets ==
    {ParsedData(r, tys, m) :
        <<r, tys, m>> \in {t \in {15, 19, 20, MaxRows}
                                   \X (UNION {[1..h -> {"number", "string"}] : h \in 0..MaxCols})
                                   \X (0..(MaxRows * MaxCols)) :
                               t[3] \in MissingCounts(t[1], Len(t[2]))}}

(***************************************************************************)
(* Questions and the four intent regular expressions                       *)
(***************************************************************************)
Vocabulary == {"Trend", "impact", "vs", "meaning"}

Questions == UNION {[1..n -> Vocabulary] : n \in 0..MaxWords}

\* The regular-expression alternatives that occur in a word, ignoring case.
Occurs(w) ==
    CASE w = "Trend" -> {"trend"}
      [] w = "impact" -> {"impact"}
      [] w = "vs" -> {"vs"}
      [] w = "meaning" -> {"mean"}
      [] OTHER -> {}

\* The alternatives that occur in the question.  No alternative spans two
\* words of the vocabulary.
Matches(q) == UNION {Occurs(q[i]) : i \in 1..Len(q)}

TrendRe == {"trend", "over time", "change", "growth", "increase", "decrease"}

CorrelationRe == {"correlat", "relationship", "connect", "affect", "impact"}

ComparisonRe == {"compar", "versus", "vs", "difference", "between"}

DistributionRe == {"distribut", "spread", "range", "average", "mean", "median"}

\* RegExp.prototype.test with the i flag
Test(re, q) == Matches(q) \cap re # {}

(***************************************************************************)
(* getMockResponse: the local heuristic                                    *)
(***************************************************************************)
BaseConfidence == 75

SmallSampleRows == 20

SmallSamplePenalty == 20

MissingPenalty == 15

CorrelationDelta == 10

FallbackDelta == 20

MockTokens == 850

MockProcessingTime == 1500

MockModel == "mock-response"

SmallSampleWarning == "Small sample size may affect reliability"

MissingWarning == "High percentage of missing values detected"

SpecificWarning == "Question could be more specific for better insights"

\* IsSmallSample with the threshold included
IsSmallSample_Inclusive(d) == d.rowCount <= SmallSampleRows

\* data.rowCount < 20
IsSmallSample(d) == d.rowCount < SmallSampleRows

\* data.summary.missingValues > data.rowCount * data.headers.length * 0.1
\* (for integer operands the double comparison agrees with 10*m > r*h)
IsHighMissing(d) == 10 * d.summary.missingValues > d.rowCount * Len(d.headers)

\* `confidence` after the two data-quality adjustments
AdjustedConfidence(d) ==
    BaseConfidence - (IF IsSmallSample(d) THEN SmallSamplePenalty ELSE 0)
                   - (IF IsHighMissing(d) THEN MissingPenalty ELSE 0)

\* `warnings` after the two data-quality adjustments
QualityWarnings(d) ==
    (IF IsSmallSample(d) THEN <<SmallSampleWarning>> ELSE <<>>)
      \o (IF IsHighMissing(d) THEN <<MissingWarning>> ELSE <<>>)

\* Branch with the correlation test ahead of the trend test
Branch_CorrelationFirst(q, d) ==
    LET numeric == d.summary.numericColumns
    IN IF Test(CorrelationRe, q) /\ Len(numeric) >= 2 THEN "correlation"
       ELSE IF Test(TrendRe, q) /\ Len(numeric) > 0 THEN "trend"
       ELSE IF Test(DistributionRe, q) /\ Len(numeric) > 0 THEN "distribution"
       ELSE "fallback"

\* Branch in which a comparison question goes to the fallback
Branch_ComparisonGated(q, d) ==
    LET numeric == d.summary.numericColumns
    IN IF Test(ComparisonRe, q) THEN "fallback"
       ELSE IF Test(TrendRe, q) /\ Len(numeric) > 0 THEN "trend"
       ELSE IF Test(CorrelationRe, q) /\ Len(numeric) >= 2 THEN "correlation"
       ELSE IF Test(DistributionRe, q) /\ Len(numeric) > 0 THEN "distribution"
       ELSE "fallback"

\* The branch of the if / else-if chain that runs
Branch(q, d) ==
    LET numeric == d.summary.numericColumns
    IN IF Test(TrendRe, q) /\ Len(numeric) > 0 THEN "trend"
       ELSE IF Test(CorrelationRe, q) /\ Len(numeric) >= 2 THEN "correlation"
       ELSE IF Test(DistributionRe, q) /\ Len(numeric) > 0 THEN "distribution"
       ELSE "fallback"

\* PatternConfidence without the per-branch deltas
PatternConfidence_Flat(b, confidence) == confidence

\* The confidence of the pattern pushed by branch b, given `confidence`
PatternConfidence(b, confidence) ==
    CASE b = "correlation" -> confidence - CorrelationDelta
      [] b = "fallback" -> confidence - FallbackDelta
      [] OTHER -> confidence

\* `patterns` after the chain
Patterns(q, d) ==
    LET numeric == d.summary.numericColumns
        confidence == AdjustedConfidence(d)
        b == Branch(q, d)
    IN CASE b = "trend" ->
              <<[type |-> "trend",
                 description |-> [tpl |-> "upward trend", cols |-> <<numeric[1]>>],
                 confidence |-> PatternConfidence(b, confidence),
                 visualization |-> Some([type |-> "line",
                                         config |-> [xAxis |-> "index", yAxis |-> numeric[1]]])]>>
         [] b = "correlation" ->
              <<[type |-> "correlation",
                 description |-> [tpl |-> "positive correlation",
                                  cols |-> <<numeric[1], numeric[2]>>],
                 confidence |-> PatternConfidence(b, confidence),
                 visualization |-> Some([type |-> "scatter",
                                         config |-> [xAxis |-> numeric[1], yAxis |-> numeric[2]]])]>>
         [] b = "distribution" ->
              <<[type |-> "distribution",
                 description |-> [tpl |-> "normal distribution", cols |-> <<numeric[1]>>],
                 confidence |-> PatternConfidence(b, confidence),
                 visualization |-> Some([type |-> "histogram",
                                         config |-> [column |-> numeric[1]]])]>>
         [] OTHER ->
              <<[type |-> "comparison",
                 description |-> [tpl |-> "general overview", cols |-> <<>>],
                 confidence |-> PatternConfidence(b, confidence),
                 visualization |-> None]>>

\* `summary` after the chain: the template and the values interpolated in it
SummaryText(q, d) ==
    LET numeric == d.summary.numericColumns
        b == Branch(q, d)
    IN CASE b = "trend" -> [tpl |-> "trend", nums |-> <<d.rowCount>>, cols |-> <<numeric[1]>>]
         [] b = "correlation" ->
              [tpl |-> "correlation", nums |-> <<>>, cols |-> <<numeric[1], numeric[2]>>]
         [] b = "distribution" ->
              [tpl |-> "distribution", nums |-> <<>>, cols |-> <<numeric[1]>>]
         [] OTHER ->
              [tpl |-> "overview",
               nums |-> <<d.rowCount, Len(d.headers), Len(numeric)>>,
               cols |-> <<>>]

\* `warnings` after the chain
Warnings(q, d) ==
    QualityWarnings(d)
      \o (IF Branch(q, d) = "fallback" THEN <<SpecificWarning>> ELSE <<>>)

\* patterns[0]?.visualization?.type
SuggestedViz(patterns) ==
    IF patterns = <<>> \/ patterns[1].visualization = None
    THEN None
    ELSE Some(patterns[1].visualization[1].type)

\* The Insight getMockResponse resolves with
getMockResponse(q, d) ==
    LET patterns == Patterns(q, d)
        warnings == Warnings(q, d)
    IN [summary |-> SummaryText(q, d),
        confidence |-> AdjustedConfidence(d),
        patterns |-> patterns,
        suggestedViz |-> SuggestedViz(patterns),
        warnings |-> IF Len(warnings) > 0 THEN Some(warnings) ELSE None,
        metadata |-> [tokensUsed |-> MockTokens,
                      processingTime |-> MockProcessingTime,
                      modelUsed |-> MockModel]]

(***************************************************************************)
(* Texts returned by the remote service                                    *)
(***************************************************************************)
NoValue == [t |-> "none", o |-> <<>>]

JNull == [t |-> "null", o |-> <<>>]

JNumber == [t |-> "number", o |-> <<>>]

JObject(o) == [t |-> "object", o |-> o]

\* A chunk of text: k is its kind ("fjson" is ```json, "fence" is ```, "nl" a
\* newline, "sp" a space, "json" the encoding of the JSON value v, "junk"
\* prose that holds no fence and is not JSON); n is its length in characters;
\* whole is FALSE for a chunk that was cut short.
Chunk(k, n, v) == [k |-> k, n |-> n, v |-> v, whole |-> TRUE]

FJson == Chunk("fjson", 7, NoValue)

Fence == Chunk("fence", 3, NoValue)

NL == Chunk("nl", 1, NoValue)

SP == Chunk("sp", 1, NoValue)

Junk(n) == Chunk("junk", n, NoValue)

Json(v) == Chunk("json", IF v.t = "object" THEN 300 ELSE 4, v)

RemoteModel == "gemini-1.5-pro"

RemotePattern(c) ==
    [type |-> "trend",
     description |-> [tpl |-> "remote", cols |-> <<>>],
     confidence |-> c,
     visualization |-> Some([type |-> "line",
                             config |-> [xAxis |-> "a", yAxis |-> "b"]])]

\* JSON values the remote service may answer with: an Insight as the prompt
\* asks for, one that carries its own metadata, one with scores outside
\* 0..100, an empty object, a number and null.
RemoteValues ==
    {JObject([summary |-> [tpl |-> "remote", nums |-> <<>>, cols |-> <<>>],
              confidence |-> 85,
              patterns |-> <<RemotePattern(85)>>,
              warnings |-> Some(<<"Any data quality concerns">>)]),
     JObject([summary |-> [tpl |-> "remote", nums |-> <<>>, cols |-> <<>>],
              confidence |-> 60,
              patterns |-> <<>>,
              metadata |-> JObject([modelUsed |-> MockModel, tokensUsed |-> 7])]),
     JObject([summary |-> [tpl |-> "remote", nums |-> <<>>, cols |-> <<>>],
              confidence |-> 150,
              patterns |-> <<RemotePattern(0 - 5)>>,
              metadata |-> JNull]),
     JObject(<<>>),
     JNumber,
     JNull}

\* Texts response.text() may return: a bare value, a value in a json fence,
\* a value padded with white space, a fenced value after a leading newline,
\* two values, prose of several lengths, and the empty text.
RemoteTexts ==
    {<<Json(v)>> : v \in RemoteValues}
      \cup {<<FJson, NL, Json(v), NL, Fence>> : v \in {JObject(<<>>), JNull}}
      \cup {<<SP, Json(JNumber), NL>>}
      \cup {<<NL, FJson, NL, Json(JObject(<<>>)), NL, Fence>>}
      \cup {<<Json(JNumber), SP, Json(JObject(<<>>)), Json(JObject(<<>>))>>}
      \cup {<<Junk(n)>> : n \in {3, 500, 501}}
      \cup {<<>>}

RECURSIVE Substring(_, _)
\* text.substring(0, n)
Substring(t, n) ==
    IF t = <<>> \/ n <= 0 THEN <<>>
    ELSE IF Head(t).n <= n
         THEN <<Head(t)>> \o Substring(Tail(t), n - Head(t).n)
         ELSE <<[Head(t) EXCEPT !.n = n, !.whole = FALSE]>>

RECURSIVE StripFences(_)
\* text.replace(/```json\n?|\n?```/g, ""): scanning from the left, ```json
\* goes with the newline after it, ``` goes with the newline before it; a
\* newline right before ```json is taken with the three backticks by the
\* second alternative, which leaves the letters "json" in the text.
StripFences(t) ==
    IF t = <<>> THEN <<>>
    ELSE LET c == Head(t)
             rest == Tail(t)
         IN CASE c.k = "fjson" ->
                   IF rest # <<>> /\ Head(rest).k = "nl"
                   THEN StripFences(Tail(rest))
                   ELSE StripFences(rest)
              [] c.k = "fence" -> StripFences(rest)
              [] c.k = "nl" /\ rest # <<>> /\ Head(rest).k = "fence" ->
                   StripFences(Tail(rest))
              [] c.k = "nl" /\ rest # <<>> /\ Head(rest).k = "fjson" ->
                   <<Junk(4)>> \o StripFences(Tail(rest))
              [] OTHER -> <<c>> \o StripFences(rest)

IsSpace(c) == c.k \in {"nl", "sp"}

RECURSIVE TrimStart(_)
TrimStart(t) ==
    IF t # <<>> /\ IsSpace(Head(t)) THEN TrimStart(Tail(t)) ELSE t

RECURSIVE TrimEnd(_)
TrimEnd(t) ==
    IF t # <<>> /\ IsSpace(t[Len(t)]) THEN TrimEnd(SubSeq(t, 1, Len(t) - 1)) ELSE t

\* String.prototype.trim
Trim(t) == TrimEnd(TrimStart(t))

\* text.replace(...).trim()
CleanText(t) == Trim(StripFences(t))

\* JSON.parse succeeds on exactly one JSON value (white space around it is
\* allowed and was trimmed)
JSONParses(t) == Len(t) = 1 /\ t[1].k = "json" /\ t[1].whole

\* JSON.parse
JSONParse(t) == t[1].v

(***************************************************************************)
(* queryAI: the two-tier resolution protocol                               *)
(***************************************************************************)
SummaryChars == 500

DegradedConfidence == 50

ParseWarning == "Unable to parse structured response. Showing raw AI output."

\* window defined?  NEXT_PUBLIC_GEMINI_API_KEY set?  SDK import succeeds?
Environments == [window : BOOLEAN, apiKey : BOOLEAN, sdk : BOOLEAN]

\* Handler when the result is built after the inner try block instead of
\* inside it
Handler_BuildOutsideTry(site) ==
    CASE site = "import" -> "getGeminiAI"
      [] site \in {"generateContent", "result.response", "response.text"} -> "outer"
      [] site = "JSON.parse" -> "inner"
      [] OTHER -> "none"

\* The catch block that receives an exception thrown at a site of the code:
\* getGeminiAI wraps the import; the outer try of queryAI wraps the remote
\* call; the inner try wraps parsing and the construction of the result.
Handler(site) ==
    CASE site = "import" -> "getGeminiAI"
      [] site \in {"generateContent", "result.response", "response.text"} -> "outer"
      [] site \in {"JSON.parse", "parsed.metadata"} -> "inner"
      [] OTHER -> "none"

\* getGeminiAI without the test for a browser context
getGeminiAI_NoWindowCheck(e) ==
    IF ~e.apiKey THEN "null"
    ELSE IF e.sdk THEN "client"
    ELSE "null"

\* getGeminiAI without the API-key check
getGeminiAI_NoKeyCheck(e) ==
    IF ~e.window THEN "null"
    ELSE IF e.sdk THEN "client"
    ELSE "null"

\* getGeminiAI: the client, or "null"
getGeminiAI(e) ==
    IF ~e.window THEN "null"
    ELSE IF ~e.apiKey THEN "null"
    ELSE IF e.sdk THEN "client"
    ELSE IF Handler("import") = "getGeminiAI" THEN "null"
    ELSE "throw"

\* parsed.metadata of a parsed object (undefined when absent)
MetadataOf(parsed) ==
    IF "metadata" \in DOMAIN parsed.o THEN parsed.o.metadata ELSE NoValue

\* RemoteInsight with parsed.metadata spread after modelUsed
RemoteInsight_MetadataLast(parsed, dt) ==
    Spread(parsed.o,
           [metadata |-> Spread([processingTime |-> dt, modelUsed |-> RemoteModel],
                                MetadataOf(parsed).o)])

\* { ...parsed, metadata: { ...parsed.metadata, processingTime, modelUsed } }
RemoteInsight(parsed, dt) ==
    Spread(parsed.o,
           [metadata |-> Spread(MetadataOf(parsed).o,
                                [processingTime |-> dt, modelUsed |-> RemoteModel])])

\* The Insight of the inner catch block
DegradedInsight(t, dt) ==
    [summary |-> [raw |-> Substring(t, SummaryChars)],
     confidence |-> DegradedConfidence,
     patterns |-> <<>>,
     warnings |-> Some(<<ParseWarning>>),
     metadata |-> [processingTime |-> dt, modelUsed |-> RemoteModel]]

\* The site at which the inner try block throws on text t, or "none"
ParseThrows(t) ==
    IF ~JSONParses(CleanText(t)) THEN "JSON.parse"
    ELSE IF JSONParse(CleanText(t)).t = "null" THEN "parsed.metadata"
    ELSE "none"

\* The variables of one call, before it starts
CallReset ==
    /\ genAI' = "null"
    /\ text' = <<>>
    /\ elapsed' = 0
    /\ result' = None
    /\ path' = "none"
    /\ cause' = "none"
    /\ remoteCalls' = 0
    /\ prompted' = FALSE

\* The useState initial values of the page's question state
NoQuestion ==
    /\ currentQuestion = None
    /\ isLoading = FALSE
    /\ history = <<>>
    /\ newQuestion = None
    /\ now = 0

\* No file was handed to the upload widget and the page holds no dataset
NoUpload ==
    /\ file = None
    /\ upPc = "idle"
    /\ upError = None
    /\ isProcessing = FALSE
    /\ activeData = None
    /\ qualityIssues = <<>>
    /\ sampleRows = None
    /\ bestDelimiter = None

Init ==
    /\ question \in Questions
    /\ data \in Datasets
    /\ env = [window |-> FALSE, apiKey |-> FALSE, sdk |-> FALSE]
    /\ pc = "idle"
    /\ genAI = "null"
    /\ text = <<>>
    /\ elapsed = 0
    /\ result = None
    /\ path = "none"
    /\ cause = "none"
    /\ remoteCalls = 0
    /\ prompted = FALSE
    /\ localSeen = None
    /\ NoUpload
    /\ NoQuestion

\* A caller invokes queryAI(question, data) in environment e
Call(e) ==
    /\ pc \in {"idle", "done", "rejected"}
    /\ env' = e
    /\ pc' = "getGeminiAI"
    /\ CallReset
    /\ UNCHANGED <<question, data, localSeen>>
    /\ UNCHANGED ingestVars
    /\ UNCHANGED pageVars

\* const genAI = await getGeminiAI(); if (!genAI) return getMockResponse(...)
GetGeminiAI ==
    /\ pc = "getGeminiAI"
    /\ LET g == getGeminiAI(env)
       IN /\ genAI' = (IF g = "throw" THEN "null" ELSE g)
          /\ pc' = CASE g = "throw" -> "rejected"
                     [] g = "null" -> "getMockResponse"
                     [] OTHER -> "attemptRemote"
          /\ cause' = (IF g = "null" THEN "unavailable" ELSE cause)
    /\ UNCHANGED <<question, data, env, text, elapsed, result, path,
                   remoteCalls, prompted, localSeen>>
    /\ UNCHANGED ingestVars
    /\ UNCHANGED pageVars

\* getGenerativeModel, generatePrompt(question, formatDataForAI(data)),
\* model.generateContent(prompt)
AttemptRemote ==
    /\ pc = "attemptRemote"
    /\ genAI = "client"
    /\ prompted' = TRUE
    /\ remoteCalls' = remoteCalls + 1
    /\ pc' = "awaitRemote"
    /\ UNCHANGED <<question, data, env, genAI, text, elapsed, result, path,
                   cause, localSeen>>
    /\ UNCHANGED ingestVars
    /\ UNCHANGED pageVars

\* The remote call succeeds: text = response.text()
RemoteResolves(t) ==
    /\ pc = "awaitRemote"
    /\ text' = t
    /\ pc' = "parse"
    /\ UNCHANGED <<question, data, env, genAI, elapsed, result, path, cause,
                   remoteCalls, prompted, localSeen>>
    /\ UNCHANGED ingestVars
    /\ UNCHANGED pageVars

\* RemoteThrows with one retry of the remote call
RemoteThrows_Retry(site) ==
    /\ pc = "awaitRemote"
    /\ pc' = (IF remoteCalls < 2 THEN "attemptRemote" ELSE "getMockResponse")
    /\ cause' = (IF remoteCalls < 2 THEN cause ELSE "error")
    /\ UNCHANGED <<question, data, env, genAI, text, elapsed, result, path,
                   remoteCalls, prompted, localSeen>>
    /\ UNCHANGED ingestVars
    /\ UNCHANGED pageVars

\* The remote call throws at one of its three awaits
RemoteThrows(site) ==
    /\ pc = "awaitRemote"
    /\ pc' = (IF Handler(site) = "outer" THEN "getMockResponse" ELSE "rejected")
    /\ cause' = (IF Handler(site) = "outer" THEN "error" ELSE cause)
    /\ UNCHANGED <<question, data, env, genAI, text, elapsed, result, path,
                   remoteCalls, prompted, localSeen>>
    /\ UNCHANGED ingestVars
    /\ UNCHANGED pageVars

\* ParseRemote whose catch block falls back to the local heuristic
ParseRemote_FallsBackToLocal(dt) ==
    /\ pc = "parse"
    /\ elapsed' = dt
    /\ LET site == ParseThrows(text)
       IN /\ result' = IF site = "none"
                        THEN Some(RemoteInsight(JSONParse(CleanText(text)), dt))
                        ELSE None
          /\ path' = (IF site = "none" THEN "parsed" ELSE path)
          /\ pc' = (IF site = "none" THEN "done" ELSE "getMockResponse")
          /\ cause' = (IF site = "none" THEN cause ELSE "error")
    /\ UNCHANGED <<question, data, env, genAI, text, remoteCalls, prompted,
                   localSeen>>
    /\ UNCHANGED ingestVars
    /\ UNCHANGED pageVars

\* The inner try block: clean, parse, build the result; its catch block
ParseRemote(dt) ==
    /\ pc = "parse"
    /\ elapsed' = dt
    /\ LET site == ParseThrows(text)
           h == IF site = "none" THEN "returns" ELSE Handler(site)
       IN /\ result' = CASE h = "returns" ->
                              Some(RemoteInsight(JSONParse(CleanText(text)), dt))
                         [] h = "inner" -> Some(DegradedInsight(text, dt))
                         [] OTHER -> None
          /\ path' = CASE h = "returns" -> "parsed"
                       [] h = "inner" -> "degraded"
                       [] OTHER -> path
          /\ pc' = CASE h \in {"returns", "inner"} -> "done"
                     [] h = "outer" -> "getMockResponse"
                     [] OTHER -> "rejected"
          /\ cause' = (IF h = "outer" THEN "error" ELSE cause)
    /\ UNCHANGED <<question, data, env, genAI, text, remoteCalls, prompted,
                   localSeen>>
    /\ UNCHANGED ingestVars
    /\ UNCHANGED pageVars

\* MockResponse that marks down the confidence after a remote error
MockResponse_ErrorMarkedDown ==
    /\ pc = "getMockResponse"
    /\ result' = Some(IF cause = "error"
                      THEN [getMockResponse(question, data)
                                EXCEPT !.confidence = DegradedConfidence]
                      ELSE getMockResponse(question, data))
    /\ path' = "local"
    /\ pc' = "done"
    /\ localSeen' = (IF cause = "unavailable" THEN result' ELSE localSeen)
    /\ UNCHANGED <<question, data, env, genAI, text, elapsed, cause,
                   remoteCalls, prompted>>
    /\ UNCHANGED ingestVars
    /\ UNCHANGED pageVars

\* return getMockResponse(question, data), from line 41 or from the outer catch
MockResponse ==
    /\ pc = "getMockResponse"
    /\ result' = Some(getMockResponse(question, data))
    /\ path' = "local"
    /\ pc' = "done"
    /\ localSeen' = (IF cause = "unavailable" THEN result' ELSE localSeen)
    /\ UNCHANGED <<question, data, env, genAI, text, elapsed, cause,
                   remoteCalls, prompted>>
    /\ UNCHANGED ingestVars
    /\ UNCHANGED pageVars

RemoteResponds ==
    \/ \E t \in RemoteTexts : RemoteResolves(t)
    \/ \E site \in {"generateContent", "result.response", "response.text"} :
           RemoteThrows(site)

Next ==
    \/ \E e \in Environments : Call(e)
    \/ GetGeminiAI
    \/ AttemptRemote
    \/ \E t \in RemoteTexts : RemoteResolves(t)
    \/ \E site \in {"generateContent", "result.response", "response.text"} :
           RemoteThrows(site)
    \/ \E dt \in 0..MaxElapsed : ParseRemote(dt)
    \/ MockResponse

Spec == Init /\ [][Next]_vars

\* Whether a call completes does not depend on the question or the dataset:
\* behaviours are checked from the one-word questions and the 20-row datasets.
FairInit ==
    /\ Init
    /\ Len(question) <= 1
    /\ data.rowCount = SmallSampleRows

\* The event loop runs every continuation that is ready, the timer of
\* getMockResponse fires, and the remote call settles one way or the other.
FairSpec ==
    /\ FairInit
    /\ [][Next]_vars
    /\ WF_vars(GetGeminiAI)
    /\ WF_vars(AttemptRemote)
    /\ WF_vars(RemoteResponds)
    /\ WF_vars(\E dt \in 0..MaxElapsed : ParseRemote(dt))
    /\ WF_vars(MockResponse)

TypeOK ==
    /\ pc \in {"idle", "getGeminiAI", "attemptRemote", "awaitRemote", "parse",
               "getMockResponse", "done", "rejected"}
    /\ path \in {"none", "parsed", "degraded", "local"}
    /\ cause \in {"none", "unavailable", "error"}
    /\ remoteCalls \in Nat

(***************************************************************************)
(* Claims                                                                  *)
(***************************************************************************)
Resolved == pc = "done" /\ result # None

Rejected == pc = "rejected"

\* C1: every call of queryAI eventually resolves with a value, and no call
\* ever rejects, whether the provider is absent, the remote call returns
\* well-formed text, returns malformed text, or throws.
C1_AlwaysCompletes == ((pc = "getGeminiAI") ~> Resolved) /\ [](~Rejected)

C1_Witness == Resolved /\ path = "degraded" /\ ParseThrows(text) = "parsed.metadata"

\* The Insight the call resolved with
Insight == result[1]

Range(f) == {f[i] : i \in DOMAIN f}

WarningsOf(r) == IF r.warnings = None THEN {} ELSE Range(r.warnings[1])

NoProvider == ~(env.window /\ env.apiKey /\ env.sdk)

\* C2: with no remote provider configured, queryAI resolves with the local
\* heuristic's Insight, labelled with the mock identifier, makes no remote
\* call, builds no prompt and does not reject.
C2_NoProviderLocal ==
    NoProvider =>
        /\ ~Rejected
        /\ remoteCalls = 0
        /\ ~prompted
        /\ Resolved =>
             /\ path = "local"
             /\ Insight = getMockResponse(question, data)
             /\ Insight.metadata.modelUsed = "mock-response"

C2_Witness == Resolved /\ NoProvider /\ env.window /\ env.apiKey

\* C3: the Insight returned after the remote call threw is the local
\* heuristic's result, identical to the Insight an earlier call on the same
\* question and dataset returned when no provider was configured.
C3_ErrorSameAsUnavailable ==
    (Resolved /\ cause = "error") =>
        /\ path = "local"
        /\ Insight = getMockResponse(question, data)
        /\ localSeen # None => result = localSeen

C3_Witness == Resolved /\ cause = "error" /\ localSeen # None

\* The fields of the degraded Insight
IsDegraded(r, t) ==
    /\ DOMAIN r = {"summary", "confidence", "patterns", "warnings", "metadata"}
    /\ r.summary = [raw |-> Substring(t, 500)]
    /\ r.confidence = 50
    /\ r.patterns = <<>>
    /\ ParseWarning \in WarningsOf(r)

\* The text, with its fences stripped, is the encoding of an object that has
\* the required fields of an Insight
ParsesAsInsight(t) ==
    /\ JSONParses(CleanText(t))
    /\ JSONParse(CleanText(t)).t = "object"
    /\ {"summary", "confidence", "patterns"} \subseteq DOMAIN JSONParse(CleanText(t)).o

\* C4: when the remote call succeeds and its text does not parse as an
\* Insight, queryAI returns the degraded Insight: summary the first 500
\* characters of the raw text, confidence 50, no patterns, a could-not-parse
\* warning.
C4_MalformedDegrades ==
    (Resolved /\ path \in {"parsed", "degraded"} /\ ~ParsesAsInsight(text)) =>
        IsDegraded(Insight, text)

\* C5: metadata.modelUsed names the terminal path: the remote model exactly
\* when the Insight came from the remote response (parsed or degraded), the
\* mock identifier exactly when it came from the local heuristic, whatever
\* modelUsed the remote response carries.
C5_ModelUsedIsPath ==
    Resolved =>
        /\ "metadata" \in DOMAIN Insight
        /\ "modelUsed" \in DOMAIN Insight.metadata
        /\ Insight.metadata.modelUsed = "gemini-1.5-pro" <=> path \in {"parsed", "degraded"}
        /\ Insight.metadata.modelUsed = "mock-response" <=> path = "local"

C5_Witness ==
    /\ Resolved
    /\ path = "parsed"
    /\ "modelUsed" \in DOMAIN MetadataOf(JSONParse(CleanText(text))).o
    /\ MetadataOf(JSONParse(CleanText(text))).o.modelUsed = "mock-response"

\* C6: one queryAI call calls the remote service at most once; after a remote
\* error or a malformed response the Insight is returned without a second
\* attempt.
C6_AtMostOneRemoteCall ==
    /\ remoteCalls <= 1
    /\ (Resolved /\ (cause = "error" \/ path = "degraded")) => remoteCalls = 1

C6_Witness == Resolved /\ cause = "error" /\ remoteCalls = 1 /\ localSeen = None

\* C7: the local heuristic's confidence is 75, minus 20 if rowCount < 20,
\* minus 15 if missingValues > rowCount * headerCount * 0.10; each warning
\* is present exactly when its penalty applies.
C7_ConfidenceArithmetic ==
    (Resolved /\ path = "local") =>
        LET small == data.rowCount < 20
            missing == 10 * data.summary.missingValues > data.rowCount * Len(data.headers)
        IN /\ Insight.confidence =
                  75 - (IF small THEN 20 ELSE 0) - (IF missing THEN 15 ELSE 0)
           /\ SmallSampleWarning \in WarningsOf(Insight) <=> small
           /\ MissingWarning \in WarningsOf(Insight) <=> missing

C7_Witness ==
    /\ Resolved
    /\ path = "local"
    /\ data.rowCount = 15
    /\ Insight.confidence = 55
    /\ Insight.patterns[1].type = "trend"
    /\ Insight.patterns[1].confidence = 55
    /\ WarningsOf(Insight) = {SmallSampleWarning}

\* The pattern type the priority order selects
ExpectedType(q, d) ==
    LET n == Len(d.summary.numericColumns)
    IN IF Test(TrendRe, q) /\ n >= 1 THEN "trend"
       ELSE IF Test(CorrelationRe, q) /\ n >= 2 THEN "correlation"
       ELSE IF Test(DistributionRe, q) /\ n >= 1 THEN "distribution"
       ELSE "comparison"

\* C8: the local heuristic produces exactly one pattern, that of the first
\* satisfied branch in the order trend (>= 1 numeric column), correlation
\* (>= 2), distribution (>= 1), else the fallback of type comparison.
C8_OnePatternByPriority ==
    (Resolved /\ path = "local") =>
        /\ Len(Insight.patterns) = 1
        /\ Insight.patterns[1].type = ExpectedType(question, data)

C8_Witness ==
    /\ Resolved
    /\ path = "local"
    /\ Test(TrendRe, question)
    /\ Test(CorrelationRe, question)
    /\ Len(data.summary.numericColumns) >= 2
    /\ Insight.patterns[1].type = "trend"

\* C9: the pattern's confidence is the base confidence for trend and
\* distribution, base - 10 for correlation, base - 20 for the fallback;
\* suggestedViz is line, scatter, histogram, and absent for the fallback,
\* which alone adds the could-be-more-specific warning.
C9_PatternConfidenceAndViz ==
    (Resolved /\ path = "local") =>
        LET p == Insight.patterns[1]
            base == Insight.confidence
        IN /\ p.type \in {"trend", "correlation", "distribution", "comparison"}
           /\ p.type \in {"trend", "distribution"} => p.confidence = base
           /\ p.type = "correlation" => p.confidence = base - 10
           /\ p.type = "comparison" => p.confidence = base - 20
           /\ Insight.suggestedViz =
                  CASE p.type = "trend" -> Some("line")
                    [] p.type = "correlation" -> Some("scatter")
                    [] p.type = "distribution" -> Some("histogram")
                    [] OTHER -> None
           /\ SpecificWarning \in WarningsOf(Insight) <=> p.type = "comparison"

C9_Witness ==
    /\ Resolved
    /\ path = "local"
    /\ Insight.patterns[1].type = "correlation"
    /\ Insight.patterns[1].confidence = Insight.confidence - 10
    /\ Insight.suggestedViz = Some("scatter")

InPercent(c) == c \in 0..100

\* C10: on every terminal path (parsed remote response, degraded, local
\* heuristic), the confidence of the Insight queryAI returns is within
\* 0..100, and so is the confidence of every pattern in it.
C10_ConfidenceInRange ==
    Resolved =>
        /\ "confidence" \in DOMAIN Insight => InPercent(Insight.confidence)
        /\ "patterns" \in DOMAIN Insight =>
               \A i \in DOMAIN Insight.patterns : InPercent(Insight.patterns[i].confidence)

(***************************************************************************)
(* Cells: the loosely typed values of a raw record                         *)
(***************************************************************************)
Num(n) == [t |-> "number", n |-> n, s |-> ""]

Str(str) == [t |-> "string", n |-> 0, s |-> str]

Bool(b) == [t |-> "boolean", n |-> IF b THEN 1 ELSE 0, s |-> ""]

Null == [t |-> "null", n |-> 0, s |-> ""]

\* The value of row[header] when the row has no such key
Undefined == [t |-> "undefined", n |-> 0, s |-> ""]

\* A JavaScript number: finite, Infinity or NaN
Fin(n) == [k |-> "fin", n |-> n]

Inf == [k |-> "inf", n |-> 0]

NaN == [k |-> "nan", n |-> 0]

\* Number(s) for the strings of the model
StringToNumber(str) ==
    CASE str = "" -> Fin(0)
      [] str = "12" -> Fin(12)
      [] str = "Infinity" -> Inf
      [] OTHER -> NaN

\* Number(v)
ToNumber(v) ==
    CASE v.t = "number" -> Fin(v.n)
      [] v.t = "boolean" -> Fin(v.n)
      [] v.t = "null" -> Fin(0)
      [] v.t = "undefined" -> NaN
      [] OTHER -> StringToNumber(v.s)

\* isNaN(x)
IsNaN(x) == x.k = "nan"

\* !isNaN(new Date(s).getTime()) for the strings of the model
DateParses(str) == str \in {"2024-01-15", "January 5, 2024"}

\* /\d{4}-\d{2}-\d{2}|\d{1,2}\/\d{1,2}\/\d{2,4}/.test(s) for the strings of
\* the model
HasDateFormat(str) == str \in {"2024-01-15", "2024-13-45"}

\* isValidDate
isValidDate(v) == v.t = "string" /\ DateParses(v.s) /\ HasDateFormat(v.s)

\* v == null
IsNullish(v) == v.t \in {"null", "undefined"}

\* IsMissing that takes the empty string for a value
IsMissing_NullOnly(v) == IsNullish(v)

\* row[header] == null || row[header] === ""
IsMissing(v) == IsNullish(v) \/ (v.t = "string" /\ v.s = "")

\* typeof v === "number" || !isNaN(Number(v))
IsNumeric(v) == v.t = "number" \/ ~IsNaN(ToNumber(v))

(***************************************************************************)
(* Records and analyzeData                                                 *)
(***************************************************************************)
\* row[header]
Get(row, h) == IF h \in DOMAIN row THEN row[h] ELSE Undefined

RECURSIVE FilterSeq(_, _)
\* The elements of seq that are in the set keep, in order
FilterSeq(seq, keep) ==
    IF seq = <<>> THEN <<>>
    ELSE IF Head(seq) \in keep
         THEN <<Head(seq)>> \o FilterSeq(Tail(seq), keep)
         ELSE FilterSeq(Tail(seq), keep)

HeaderNamesSet == {HeaderNames[i] : i \in 1..Len(HeaderNames)}

\* Object.keys(row); the records of the model list their keys in the order
\* of HeaderNames
SampleSize == 10

\* rows.slice(0, n)
SliceFirst(seq, n) == SubSeq(seq, 1, IF Len(seq) < n THEN Len(seq) ELSE n)

\* rows.slice(-n)
SliceLast(seq, n) ==
    SubSeq(seq, (IF Len(seq) < n THEN 0 ELSE Len(seq) - n) + 1, Len(seq))

\* rows.slice(0, 10).map((row) => row[header]).filter((v) => v != null),
\* as the set of its values
SampleValues(rows, h) ==
    {v \in {Get(rows[i], h) : i \in 1..Len(SliceFirst(rows, SampleSize))} : ~IsNullish(v)}

\* InferType that takes a column without sampled values for text
InferType_EmptyIsString(rows, h) ==
    LET sampleValues == SampleValues(rows, h)
    IN IF sampleValues = {} THEN "string"
       ELSE IF \A v \in sampleValues : IsNumeric(v) THEN "number"
       ELSE IF \E v \in sampleValues : isValidDate(v) THEN "date"
       ELSE "string"

\* The type the forEach body gives a header
InferType(rows, h) ==
    LET sampleValues == SampleValues(rows, h)
    IN IF \A v \in sampleValues : IsNumeric(v) THEN "number"
       ELSE IF \E v \in sampleValues : isValidDate(v) THEN "date"
       ELSE "string"

\* The number of missing cells over rows x headers
CountMissing(rows, headers) ==
    Cardinality({<<i, j>> \in (1..Len(rows)) \X (1..Len(headers)) :
                     IsMissing(Get(rows[i], headers[j]))})

EmptyInputMessage == "No data found"

Ok(v) == [ok |-> TRUE, value |-> Some(v), error |-> "", isError |-> TRUE]

\* A thrown Error (isError) or a rejection with some other object
Err(msg, isError) == [ok |-> FALSE, value |-> None, error |-> msg, isError |-> isError]

\* HeadersOfType that lists under "string" every header that is not a number
HeadersOfType_TextIsTheRest(headers, columnTypes, ty) ==
    FilterSeq(headers, {h \in DOMAIN columnTypes :
                            IF ty = "string" THEN columnTypes[h] # "number"
                            ELSE columnTypes[h] = ty})

\* headers.filter((h) => columnTypes[h] === ty)
HeadersOfType(headers, columnTypes, ty) ==
    FilterSeq(headers, {h \in DOMAIN columnTypes : columnTypes[h] = ty})

\* const headers = Object.keys(rows[0])
HeadersOf(rows) == FilterSeq(HeaderNames, DOMAIN rows[1])

\* ColumnTypesOf that has an entry for every key of every row
ColumnTypesOf_EveryKey(rows, headers) ==
    [h \in UNION {DOMAIN rows[i] : i \in 1..Len(rows)} |-> InferType(rows, h)]

\* headers.forEach((header) => { ... columnTypes[header] = ... })
ColumnTypesOf(rows, headers) ==
    [h \in {headers[i] : i \in 1..Len(headers)} |-> InferType(rows, h)]

\* analyzeData: the dataset, or the error thrown
analyzeData(rows) ==
    IF Len(rows) = 0 THEN Err(EmptyInputMessage, TRUE)
    ELSE LET headers == HeadersOf(rows)
             columnTypes == ColumnTypesOf(rows, headers)
         IN Ok([headers |-> headers,
                rows |-> rows,
                rowCount |-> Len(rows),
                columnTypes |-> columnTypes,
                summary |-> [totalRows |-> Len(rows),
                             totalColumns |-> Len(headers),
                             missingValues |-> CountMissing(rows, headers),
                             numericColumns |-> HeadersOfType(headers, columnTypes, "number"),
                             textColumns |-> HeadersOfType(headers, columnTypes, "string"),
                             dateColumns |-> HeadersOfType(headers, columnTypes, "date")]])

(***************************************************************************)
(* detectQualityIssues                                                     *)
(***************************************************************************)
MissingIssuePercent == 5

MissingHighPercent == 20

SmallDatasetRows == 10

\* a <= b for numbers that are not NaN
Leq(a, b) == b.k = "inf" \/ (a.k = "fin" /\ a.n <= b.n)

RECURSIVE Insert(_, _)
Insert(x, sorted) ==
    IF sorted = <<>> THEN <<x>>
    ELSE IF Leq(x, Head(sorted)) THEN <<x>> \o sorted
    ELSE <<Head(sorted)>> \o Insert(x, Tail(sorted))

RECURSIVE Sort(_)
\* [...values].sort((a, b) => a - b)
Sort(values) ==
    IF values = <<>> THEN <<>> ELSE Insert(Head(values), Sort(Tail(values)))

RECURSIVE DropNaN(_)
\* .filter((v) => !isNaN(v))
DropNaN(values) ==
    IF values = <<>> THEN <<>>
    ELSE IF IsNaN(Head(values)) THEN DropNaN(Tail(values))
    ELSE <<Head(values)>> \o DropNaN(Tail(values))

\* data.rows.map((row) => Number(row[column])).filter((v) => !isNaN(v))
ColumnValues(d, column) ==
    DropNaN([i \in 1..Len(d.rows) |-> ToNumber(Get(d.rows[i], column))])

\* sorted[Math.floor(sorted.length * 0.25)]
Quartile1(sorted) == sorted[(Len(sorted) \div 4) + 1]

\* sorted[Math.floor(sorted.length * 0.75)]
Quartile3(sorted) == sorted[((3 * Len(sorted)) \div 4) + 1]

\* v < q1 - 1.5 * iqr || v > q3 + 1.5 * iqr, with iqr = q3 - q1.  When q3 is
\* Infinity the interquartile range is Infinity or NaN and both comparisons
\* are false.  The finite case is compared after doubling both sides.
IsOutlier(v, q1, q3) ==
    IF q3.k = "inf" THEN FALSE
    ELSE IF v.k = "inf" THEN TRUE
    ELSE 2 * v.n < 2 * q1.n - 3 * (q3.n - q1.n) \/ 2 * v.n > 2 * q3.n + 3 * (q3.n - q1.n)

\* outliers.length
OutlierCount(values) ==
    LET sorted == Sort(values)
    IN Cardinality({i \in 1..Len(values) :
                        IsOutlier(values[i], Quartile1(sorted), Quartile3(sorted))})

\* OutlierIssueDue without the test of the share of outliers
OutlierIssueDue_AnyOutlier(values) == Len(values) > 0 /\ OutlierCount(values) > 0

\* outliers.length > 0 && outliers.length / values.length > 0.05
\* (in doubles o / n > 0.05 agrees with 20 * o > n)
OutlierIssueDue(values) ==
    Len(values) > 0 /\ OutlierCount(values) > 0 /\ 20 * OutlierCount(values) > Len(values)

RECURSIVE OutlierIssues(_, _)
\* data.summary.numericColumns.forEach(...)
OutlierIssues(d, columns) ==
    IF columns = <<>> THEN <<>>
    ELSE LET values == ColumnValues(d, Head(columns))
         IN (IF OutlierIssueDue(values)
             THEN <<[type |-> "outlier",
                     severity |-> "medium",
                     description |-> [tpl |-> "outliers",
                                      nums |-> <<OutlierCount(values), Len(values)>>,
                                      cols |-> <<Head(columns)>>],
                     affectedColumns |-> Some(<<Head(columns)>>)]>>
             ELSE <<>>)
            \o OutlierIssues(d, Tail(columns))

\* MissingIssue with the thresholds included
MissingIssue_Inclusive(d) ==
    LET missing == d.summary.missingValues
        cells == d.rowCount * Len(d.headers)
    IN IF cells > 0 /\ 100 * missing >= MissingIssuePercent * cells
       THEN <<[type |-> "missing",
               severity |-> IF 100 * missing >= MissingHighPercent * cells
                            THEN "high" ELSE "medium",
               description |-> [tpl |-> "missing", nums |-> <<missing, cells>>, cols |-> <<>>],
               affectedColumns |-> None]>>
       ELSE <<>>

\* The issue pushed for missing values: missingPercentage =
\* missingValues / (rowCount * headers.length) * 100 is NaN when there are
\* no cells; otherwise, in doubles, missingPercentage > k agrees with
\* 100 * missing > k * cells.
MissingIssue(d) ==
    LET missing == d.summary.missingValues
        cells == d.rowCount * Len(d.headers)
    IN IF cells > 0 /\ 100 * missing > MissingIssuePercent * cells
       THEN <<[type |-> "missing",
               severity |-> IF 100 * missing > MissingHighPercent * cells
                            THEN "high" ELSE "medium",
               description |-> [tpl |-> "missing", nums |-> <<missing, cells>>, cols |-> <<>>],
               affectedColumns |-> None]>>
       ELSE <<>>

\* The issue pushed for a small sample
SmallSampleIssue(d) ==
    IF d.rowCount < SmallDatasetRows
    THEN <<[type |-> "invalid",
            severity |-> "high",
            description |-> [tpl |-> "small sample", nums |-> <<>>, cols |-> <<>>],
            affectedColumns |-> None]>>
    ELSE <<>>

\* detectQualityIssues that checks the sample size first
detectQualityIssues_SmallFirst(d) ==
    SmallSampleIssue(d) \o MissingIssue(d) \o OutlierIssues(d, d.summary.numericColumns)

\* detectQualityIssues
detectQualityIssues(d) ==
    MissingIssue(d) \o SmallSampleIssue(d) \o OutlierIssues(d, d.summary.numericColumns)

(***************************************************************************)
(* formatDataForAI                                                         *)
(***************************************************************************)
HeadRows == 5

TailRows == 5

TailThreshold == 10

\* SampleOf that appends the tail whenever there are more than 5 rows
SampleOf_TailAlways(seq) ==
    SliceFirst(seq, HeadRows)
      \o (IF Len(seq) > HeadRows THEN SliceLast(seq, TailRows) ELSE <<>>)

\* [...rows.slice(0, 5), ...(rows.length > 10 ? rows.slice(-5) : [])]
SampleOf(seq) ==
    SliceFirst(seq, HeadRows)
      \o (IF Len(seq) > TailThreshold THEN SliceLast(seq, TailRows) ELSE <<>>)

\* The structure formatDataForAI encodes, and the positions of the rows it
\* sampled
formatDataForAI(d) ==
    [schema |-> [columns |-> [i \in 1..Len(d.headers) |->
                                  [name |-> d.headers[i], type |-> d.columnTypes[d.headers[i]]]],
                 rowCount |-> d.rowCount,
                 summary |-> d.summary],
     sampleRows |-> SampleOf(d.rows),
     positions |-> SampleOf([i \in 1..Len(d.rows) |-> i])]

(***************************************************************************)
(* Files                                                                   *)
(*                                                                         *)
(* A file is its extension, whether its bytes can be read and decoded,     *)
(* and the records a successful decoding yields.  Records have the keys    *)
(* "a" and "b".  Column "a" repeats one cell, or counts 1, 2, 3, ..., and  *)
(* holds one exceptional cell; column "b" is absent, counts, is null, or   *)
(* is present from the second record on.                                   *)
(***************************************************************************)
Ramp == [t |-> "ramp", n |-> 0, s |-> ""]

CellValues ==
    {Num(100), Str("12"), Str(""), Null, Str("abc"), Str("2024-01-15"),
     Str("January 5, 2024"), Str("2024-13-45"), Str("Infinity"), Bool(TRUE)}

Positions(n) == IF n = 0 THEN {0} ELSE {1, 10, 11, n} \cap (1..n)

ColumnA(base, p, x, i) == IF i = p THEN x ELSE IF base = Ramp THEN Num(i) ELSE base

ColumnB(mode, i) ==
    CASE mode = "ramp" -> Num(i)
      [] mode = "nulls" -> Null
      [] mode = "late" -> IF i = 1 THEN Undefined ELSE Str("abc")
      [] mode = "spike" -> IF i = 1 THEN Num(-100) ELSE IF i = 2 THEN Null ELSE Num(i)
      [] OTHER -> Undefined

\* The record with the given cells, a key being absent where the cell is
\* undefined
MkRow(a, b) ==
    LET cells == [h \in {"a", "b"} |-> IF h = "a" THEN a ELSE b]
    IN [h \in {k \in {"a", "b"} : cells[k] # Undefined} |-> cells[h]]

MkRows(n, base, p, x, mode) ==
    [i \in 1..n |-> MkRow(ColumnA(base, p, x, i), ColumnB(mode, i))]

RowInputs(bases, xs, modes) ==
    UNION {{MkRows(n, base, p, x, mode) :
                base \in bases, p \in Positions(n), x \in xs, mode \in modes} : n \in {0, 1, 4, 5, 6, 10, 11, 19, 20, MaxRows}}

\* What JSON text can hold
JsonRowInputs ==
    RowInputs(CellValues \cup {Ramp},
              CellValues \cup {Undefined, Num(-100)},
              {"none", "ramp", "nulls", "late"})

\* What a parser that reads a header line yields: every record has every
\* header
TableRowInputs ==
    RowInputs({Ramp}, {Num(100), Null, Str("abc")}, {"none", "ramp", "nulls", "spike"})

File(ext, ok, isError, wrap, rows) ==
    [ext |-> ext, ok |-> ok, isError |-> isError, wrap |-> wrap, rows |-> rows,
     lines |-> IF Len(rows) = 0 THEN 0 ELSE Len(rows) + 1, shape |-> <<>>]

\* The four candidates of parseTextToData, in its order
Delimiters == <<",", "\t", "|", ";">>

\* The non-blank lines of an extracted text all have one shape: fields
\* without delimiters in them, separated by the delimiters of the shape
\* (a sequence of at most MaxDelims delimiters).

\* line.split(delimiter).length - 1
Occurrences(line, delimiter) == Cardinality({i \in 1..Len(line) : line[i] = delimiter})

RECURSIVE Split(_, _)
\* line.split(delimiter): of each piece, the delimiters left inside it
Split(line, delimiter) ==
    IF line = <<>> THEN <<<<>>>>
    ELSE LET rest == Split(Tail(line), delimiter)
         IN IF Head(line) = delimiter THEN <<<<>>>> \o rest
            ELSE <<<<Head(line)>> \o Head(rest)>> \o Tail(rest)

\* The records Papa.parse yields for n data lines under a header line, all
\* of the given shape: the k-th field is named by the k-th header name and,
\* with dynamicTyping, is a number unless it has a delimiter inside
TextRecords(shape, n, delimiter) ==
    LET pieces == Split(shape, delimiter)
    IN [i \in 1..n |-> [h \in Range(SubSeq(HeaderNames, 1, Len(pieces))) |->
            IF pieces[CHOOSE k \in 1..Len(pieces) : HeaderNames[k] = h] = <<>>
            THEN Num(i) ELSE Str("abc")]]

\* The text extracted from a PDF or an image
TextFile(ext, shape, lines) ==
    [ext |-> ext, ok |-> TRUE, isError |-> TRUE, wrap |-> "array",
     rows |-> TextRecords(shape, IF lines < 2 THEN 0 ELSE lines - 1, ","),
     lines |-> lines, shape |-> shape]

Files ==
    {File("json", TRUE, TRUE, "array", rows) : rows \in JsonRowInputs}
      \cup {File("json", TRUE, TRUE, "object", rows) : rows \in {r \in JsonRowInputs : Len(r) = 1}}
      \cup {File(ext, TRUE, TRUE, "array", rows) :
                ext \in {"csv", "xlsx"}, rows \in TableRowInputs}
      \cup {TextFile(ext, shape, lines) :
                ext \in {"pdf", "png"}, shape \in UNION {[1..n -> Range(Delimiters)] : n \in 0..MaxDelims},
                lines \in {1, 2, 12}}
      \cup {TextFile(ext, <<>>, 0) : ext \in {"pdf", "png"}}
      \cup {File(ext, FALSE, isError, "array", <<>>) :
                ext \in {"csv", "json", "xlsx", "pdf", "png"}, isError \in BOOLEAN}
      \cup {File("txt", TRUE, TRUE, "array", <<>>)}

(***************************************************************************)
(* The parsers of FileUpload                                               *)
(***************************************************************************)
ReadErrorMessage == "read error"

InvalidJsonMessage == "Invalid JSON format"

ExcelEmptyMessage == "Excel file is empty"

NotEnoughDataMessage ==
    "Could not find enough data. Please ensure the file contains tabular information."

NoDataExtractedMessage == "No data could be extracted"

PdfMessage == "Failed to parse PDF. Please ensure it contains tabular data."

ImageMessage ==
    "Failed to extract text from image. Please ensure the image contains clear, readable data."

UnsupportedMessage ==
    "Unsupported file type. Please upload CSV, JSON, Excel, PDF, or Image files."

FallbackMessage == "Failed to parse file"

\* parseCSV: Papa's error callback rejects with what the reader reported,
\* complete hands the records to analyzeData
parseCSV(f) ==
    IF ~f.ok THEN Err(ReadErrorMessage, f.isError) ELSE analyzeData(f.rows)

\* parseJSON: whatever is thrown inside the try is replaced
parseJSON(f) ==
    IF ~f.ok THEN Err(InvalidJsonMessage, TRUE)
    ELSE LET rows == IF f.wrap = "array" THEN f.rows ELSE <<f.rows[1]>>
             parsed == analyzeData(rows)
         IN IF parsed.ok THEN parsed ELSE Err(InvalidJsonMessage, TRUE)

\* parseExcel
parseExcel(f) ==
    IF ~f.ok THEN Err(ReadErrorMessage, TRUE)
    ELSE IF Len(f.rows) = 0 THEN Err(ExcelEmptyMessage, TRUE)
    ELSE analyzeData(f.rows)

RECURSIVE DelimiterLoop_LastWins(_, _, _, _)
\* DelimiterLoop in which a later candidate wins a tie
DelimiterLoop_LastWins(delimiters, line, best, maxColumns) ==
    IF delimiters = <<>> THEN best
    ELSE LET columns == Occurrences(line, Head(delimiters)) + 1
         IN IF columns >= maxColumns
            THEN DelimiterLoop_LastWins(Tail(delimiters), line, Head(delimiters), columns)
            ELSE DelimiterLoop_LastWins(Tail(delimiters), line, best, maxColumns)

RECURSIVE DelimiterLoop(_, _, _, _)
\* for (const delimiter of delimiters) { ... if (columns > maxColumns) ... }
DelimiterLoop(delimiters, line, best, maxColumns) ==
    IF delimiters = <<>> THEN best
    ELSE LET columns == Occurrences(line, Head(delimiters)) + 1
         IN IF columns > maxColumns
            THEN DelimiterLoop(Tail(delimiters), line, Head(delimiters), columns)
            ELSE DelimiterLoop(Tail(delimiters), line, best, maxColumns)

\* bestDelimiter after the loop, from bestDelimiter = "," and maxColumns = 0
BestDelimiter(line) == DelimiterLoop(Delimiters, line, ",", 0)

\* The delimiter handed to Papa.parse while f is parsed, if one is chosen
DelimiterChosen(f) ==
    IF f.ok /\ f.ext \in {"pdf", "png"} /\ f.lines >= 2
    THEN Some(BestDelimiter(f.shape)) ELSE None

\* parseTextToData, of the text extracted from f
parseTextToData(f) ==
    IF f.lines < 2 THEN Err(NotEnoughDataMessage, TRUE)
    ELSE LET records == TextRecords(f.shape, f.lines - 1, BestDelimiter(f.shape))
         IN IF Len(records) = 0 THEN Err(NoDataExtractedMessage, TRUE)
            ELSE analyzeData(records)

\* parsePDF: whatever is thrown inside the try is replaced
parsePDF(f) ==
    IF ~f.ok THEN Err(PdfMessage, TRUE)
    ELSE LET parsed == parseTextToData(f)
         IN IF parsed.ok THEN parsed ELSE Err(PdfMessage, TRUE)

\* parseImage: whatever is thrown inside the try is replaced
parseImage(f) ==
    IF ~f.ok THEN Err(ImageMessage, TRUE)
    ELSE LET parsed == parseTextToData(f)
         IN IF parsed.ok THEN parsed ELSE Err(ImageMessage, TRUE)

\* The routing of handleFile by the file's extension
Route(f) ==
    CASE f.ext = "csv" -> parseCSV(f)
      [] f.ext = "json" -> parseJSON(f)
      [] f.ext = "xlsx" -> parseExcel(f)
      [] f.ext = "pdf" -> parsePDF(f)
      [] f.ext = "png" -> parseImage(f)
      [] OTHER -> Err(UnsupportedMessage, TRUE)

(***************************************************************************)
(* The upload handler and the page                                         *)
(***************************************************************************)
\* HandleFile of a widget that stays on the page once a dataset is set
HandleFile_WidgetAlwaysShown(f) ==
    /\ upPc = "idle"
    /\ ~isProcessing
    /\ file' = Some(f)
    /\ upError' = None
    /\ isProcessing' = TRUE
    /\ upPc' = "parsing"
    /\ bestDelimiter' = None
    /\ UNCHANGED <<activeData, qualityIssues, sampleRows>>
    /\ UNCHANGED queryVars
    /\ UNCHANGED pageVars

\* handleFile up to its first await: the widget is rendered while the page
\* has no dataset and takes no file while it is processing one
HandleFile(f) ==
    /\ upPc = "idle"
    /\ ~isProcessing
    /\ activeData = None
    /\ file' = Some(f)
    /\ upError' = None
    /\ isProcessing' = TRUE
    /\ upPc' = "parsing"
    /\ bestDelimiter' = None
    /\ UNCHANGED <<activeData, qualityIssues, sampleRows>>
    /\ UNCHANGED queryVars
    /\ UNCHANGED pageVars

\* err instanceof Error ? err.message : "Failed to parse file"
Surfaced(r) == IF r.isError THEN r.error ELSE FallbackMessage

\* The parser resolved: onDataParsed(data), which is handleDataParsed of the
\* page, then the finally block; the page derives the issues as it renders
OnDataParsed ==
    /\ upPc = "parsing"
    /\ Route(file[1]).ok
    /\ activeData' = Route(file[1]).value
    /\ qualityIssues' = detectQualityIssues(Route(file[1]).value[1])
    /\ isProcessing' = FALSE
    /\ upPc' = "idle"
    /\ bestDelimiter' = DelimiterChosen(file[1])
    /\ currentQuestion' = None
    /\ history' = <<>>
    /\ UNCHANGED <<file, upError, sampleRows, isLoading, newQuestion, now>>
    /\ UNCHANGED queryVars

\* ParseRejected that shows no message
ParseRejected_Silent ==
    /\ upPc = "parsing"
    /\ ~Route(file[1]).ok
    /\ isProcessing' = FALSE
    /\ upPc' = "idle"
    /\ bestDelimiter' = DelimiterChosen(file[1])
    /\ UNCHANGED <<file, upError, activeData, qualityIssues, sampleRows>>
    /\ UNCHANGED queryVars
    /\ UNCHANGED pageVars

\* The parser threw or rejected: the catch block, then the finally block
ParseRejected ==
    /\ upPc = "parsing"
    /\ ~Route(file[1]).ok
    /\ upError' = Some(Surfaced(Route(file[1])))
    /\ isProcessing' = FALSE
    /\ upPc' = "idle"
    /\ bestDelimiter' = DelimiterChosen(file[1])
    /\ UNCHANGED <<file, activeData, qualityIssues, sampleRows>>
    /\ UNCHANGED queryVars
    /\ UNCHANGED pageVars

\* FormatDataForAI that takes the sample with splice
FormatDataForAI_Splice ==
    /\ activeData # None
    /\ sampleRows = None
    /\ sampleRows' = Some(formatDataForAI(activeData[1]))
    /\ activeData' = Some([activeData[1] EXCEPT
                              !.rows = SubSeq(@, Len(SliceFirst(@, HeadRows)) + 1, Len(@))])
    /\ UNCHANGED <<file, upPc, upError, isProcessing, qualityIssues, bestDelimiter>>
    /\ UNCHANGED queryVars
    /\ UNCHANGED pageVars

\* generatePrompt encodes the page's dataset for a question
FormatDataForAI ==
    /\ activeData # None
    /\ sampleRows = None
    /\ sampleRows' = Some(formatDataForAI(activeData[1]))
    /\ UNCHANGED <<file, upPc, upError, isProcessing, activeData, qualityIssues,
                   bestDelimiter>>
    /\ UNCHANGED queryVars
    /\ UNCHANGED pageVars

\* A page on which no question has been asked
IngestInit ==
    /\ question = <<>>
    /\ data = ParsedData(SmallSampleRows, <<"number">>, 0)
    /\ env = [window |-> FALSE, apiKey |-> FALSE, sdk |-> FALSE]
    /\ pc = "idle"
    /\ genAI = "null"
    /\ text = <<>>
    /\ elapsed = 0
    /\ result = None
    /\ path = "none"
    /\ cause = "none"
    /\ remoteCalls = 0
    /\ prompted = FALSE
    /\ localSeen = None
    /\ NoUpload
    /\ NoQuestion

IngestNext ==
    \/ \E f \in Files : HandleFile(f)
    \/ OnDataParsed
    \/ ParseRejected
    \/ FormatDataForAI

IngestSpec == IngestInit /\ [][IngestNext]_vars

IngestTypeOK ==
    /\ upPc \in {"idle", "parsing"}
    /\ isProcessing \in BOOLEAN
    /\ Len(file) <= 1
    /\ Len(upError) <= 1
    /\ Len(activeData) <= 1
    /\ Len(sampleRows) <= 1
    /\ Len(bestDelimiter) <= 1
    /\ file # None => file[1] \in Files

(***************************************************************************)
(* Claims about ingestion                                                  *)
(***************************************************************************)
\* The upload handler has finished with the file it was given
Settled == file # None /\ upPc = "idle"

Supported == {"csv", "json", "xlsx", "pdf", "png"}

\* A readable file of a supported type that holds no record
ZeroRecords(f) == f.ok /\ f.ext \in Supported /\ Len(f.rows) = 0

\* The same file with bytes that cannot be decoded
Malformed(f) == [f EXCEPT !.ok = FALSE]

\* C11: on every entry point, a file with zero records is refused with an
\* error that differs from the one the same entry point gives for malformed
\* input, and no dataset is produced.
C11_EmptyInputError ==
    (Settled /\ ZeroRecords(file[1])) =>
        /\ activeData = None
        /\ upError # None
        /\ upError # Some(Surfaced(Route(Malformed(file[1]))))

\* C12: a dataset made from a non-empty row sequence has rowCount equal to
\* the number of rows and to summary.totalRows, as many columnTypes entries
\* as headers, and summary.totalColumns equal to the number of headers.
C12_CountsAgree ==
    /\ (Settled /\ file[1].ok /\ file[1].ext \in Supported /\ Len(file[1].rows) > 0) =>
           /\ activeData # None
           /\ Len(activeData[1].rows) = Len(file[1].rows)
           /\ file[1].shape = <<>> => activeData[1].rows = file[1].rows
    /\ activeData # None =>
           /\ activeData[1].rowCount = Len(activeData[1].rows)
           /\ activeData[1].rowCount = activeData[1].summary.totalRows
           /\ Cardinality(DOMAIN activeData[1].columnTypes) = Len(activeData[1].headers)
           /\ activeData[1].summary.totalColumns = Len(activeData[1].headers)

C12_Witness ==
    /\ activeData # None
    /\ activeData[1].rowCount = 19
    /\ activeData[1].summary.totalColumns = 2
    /\ \E i \in 1..19 : DOMAIN activeData[1].rows[i] # DOMAIN activeData[1].rows[1]

\* C13: in every dataset every row has exactly the headers as its keys: a
\* row without a header shows null for it and a key that only a later row
\* has is not shown.
C13_RowKeysEqualHeaders ==
    activeData # None =>
        \A i \in 1..Len(activeData[1].rows) :
            DOMAIN activeData[1].rows[i] = Range(activeData[1].headers)

\* The lists of the summary by type
TypeLists(d) ==
    [number |-> d.summary.numericColumns,
     string |-> d.summary.textColumns,
     date |-> d.summary.dateColumns]

\* sub lists some of the elements of seq, each once, in the order of seq
IsOrderedSublist(sub, seq) ==
    \E pos \in [1..Len(sub) -> 1..Len(seq)] :
        /\ \A i \in 1..Len(sub) : seq[pos[i]] = sub[i]
        /\ \A i, j \in 1..Len(sub) : i < j => pos[i] < pos[j]

\* C14: numericColumns, textColumns and dateColumns partition the headers:
\* each header is in exactly the list of its columnTypes entry, and each
\* list keeps the order of the headers.
C14_Partition ==
    activeData # None =>
        /\ \A h \in Range(activeData[1].headers) : \A ty \in {"number", "string", "date"} :
               h \in Range(TypeLists(activeData[1])[ty]) <=> activeData[1].columnTypes[h] = ty
        /\ \A ty \in {"number", "string", "date"} :
               IsOrderedSublist(TypeLists(activeData[1])[ty], activeData[1].headers)

C14_Witness ==
    /\ activeData # None
    /\ activeData[1].summary.dateColumns = <<"a">>
    /\ activeData[1].summary.numericColumns = <<"b">>
    /\ activeData[1].summary.textColumns = <<>>

\* C15: summary.missingValues is the number of pairs of a row and a header
\* whose cell is null, absent or the empty string, and nothing else counts.
C15_MissingCount ==
    activeData # None =>
        activeData[1].summary.missingValues =
            Cardinality({c \in (1..Len(activeData[1].rows)) \X Range(activeData[1].headers) :
                             \/ c[2] \notin DOMAIN activeData[1].rows[c[1]]
                             \/ activeData[1].rows[c[1]][c[2]] = Null
                             \/ activeData[1].rows[c[1]][c[2]] = Str("")})

C15_Witness ==
    /\ activeData # None
    /\ activeData[1].headers = <<"a", "b">>
    /\ \E i \in 1..Len(activeData[1].rows) : "a" \notin DOMAIN activeData[1].rows[i]
    /\ \E i \in 1..Len(activeData[1].rows) :
           "a" \in DOMAIN activeData[1].rows[i] /\ activeData[1].rows[i]["a"] = Str("")
    /\ activeData[1].summary.missingValues = activeData[1].rowCount

\* What the claim calls numeric, or a string that coerces to a finite number
NumericOrFinite(v) == v.t = "number" \/ (v.t = "string" /\ StringToNumber(v.s).k = "fin")

\* The non-null cells of header h in the first 10 rows
First10(d, h) ==
    {v \in {Get(d.rows[i], h) : i \in {k \in 1..Len(d.rows) : k <= 10}} :
         v # Null /\ v # Undefined}

\* C16: the type of a header is decided by the non-null values of its
\* first 10 rows alone: number if each is numeric or a string that coerces
\* to a finite number, else date if one parses as a date and has one of the
\* two patterns, else string.
C16_TypeInference ==
    activeData # None =>
        \A h \in Range(activeData[1].headers) :
            activeData[1].columnTypes[h] =
                IF \A v \in First10(activeData[1], h) : NumericOrFinite(v) THEN "number"
                ELSE IF \E v \in First10(activeData[1], h) :
                            v.t = "string" /\ DateParses(v.s) /\ HasDateFormat(v.s)
                     THEN "date"
                     ELSE "string"

\* The issues of the page of one type
IssuesOfType(ty) == SelectSeq(qualityIssues, LAMBDA issue : issue.type = ty)

\* C17: there is a missing-data issue exactly when missingValues /
\* (rowCount * headerCount) * 100 is above 5, it is high exactly when that
\* percentage is above 20 and medium otherwise, and there is at most one.
C17_MissingIssue ==
    activeData # None =>
        LET missing == activeData[1].summary.missingValues
            cells == activeData[1].rowCount * Len(activeData[1].headers)
        IN /\ Len(IssuesOfType("missing")) <= 1
           /\ Len(IssuesOfType("missing")) = 1 <=> (cells > 0 /\ 100 * missing > 5 * cells)
           /\ \A i \in 1..Len(IssuesOfType("missing")) :
                  IssuesOfType("missing")[i].severity =
                      IF 100 * missing > 20 * cells THEN "high" ELSE "medium"

C17_Witness ==
    /\ activeData # None
    /\ activeData[1].rowCount = 5
    /\ activeData[1].summary.missingValues = 1
    /\ Len(activeData[1].headers) = 1
    /\ Len(IssuesOfType("missing")) = 1
    /\ IssuesOfType("missing")[1].severity = "medium"

\* The numbers of a column: Number(cell) of every row, without the NaN
NumbersOf(d, column) ==
    LET all == [i \in 1..Len(d.rows) |-> ToNumber(Get(d.rows[i], column))]
    IN SelectSeq(all, LAMBDA x : x.k # "nan")

AllFinite(values) == \A i \in 1..Len(values) : values[i].k = "fin"

\* The element at index k, counted from 0, of the ascending order of values
OrderStatistic(values, k) ==
    CHOOSE x \in {values[i].n : i \in 1..Len(values)} :
        /\ Cardinality({i \in 1..Len(values) : values[i].n < x}) <= k
        /\ Cardinality({i \in 1..Len(values) : values[i].n <= x}) > k

\* The number of values outside q1 - 1.5 * iqr .. q3 + 1.5 * iqr
OutliersBeyondFences(values) ==
    LET q1 == OrderStatistic(values, Len(values) \div 4)
        q3 == OrderStatistic(values, (3 * Len(values)) \div 4)
    IN Cardinality({i \in 1..Len(values) :
                        \/ 2 * values[i].n < 2 * q1 - 3 * (q3 - q1)
                        \/ 2 * values[i].n > 2 * q3 + 3 * (q3 - q1)})

OutlierIssuesOf(column) ==
    SelectSeq(qualityIssues,
              LAMBDA issue : issue.type = "outlier" /\ issue.affectedColumns = Some(<<column>>))

\* C18: for a numeric column with n >= 1 numbers, with q1 and q3 the
\* elements at floor(n * 0.25) and floor(n * 0.75) of the ascending order,
\* there is one medium outlier issue naming the column if the number of
\* values beyond 1.5 interquartile ranges from the quartiles is positive and
\* more than 5% of n, and none otherwise.
C18_OutlierIssue ==
    activeData # None =>
        \A column \in Range(activeData[1].summary.numericColumns) :
            LET values == NumbersOf(activeData[1], column)
            IN (Len(values) >= 1 /\ AllFinite(values)) =>
                   /\ Len(OutlierIssuesOf(column)) =
                          IF /\ OutliersBeyondFences(values) > 0
                             /\ 20 * OutliersBeyondFences(values) > Len(values)
                          THEN 1 ELSE 0
                   /\ \A i \in 1..Len(OutlierIssuesOf(column)) :
                          OutlierIssuesOf(column)[i].severity = "medium"

C18_Witness ==
    /\ activeData # None
    /\ activeData[1].rows =
           [i \in 1..10 |-> [a |-> Num(IF i = 10 THEN 100 ELSE i)]]
    /\ Len(IssuesOfType("outlier")) = 1
    /\ IssuesOfType("outlier")[1].affectedColumns = Some(<<"a">>)

\* C19: the sample is rows 1..5 followed by the last 5 rows when there are
\* more than 10 rows, and rows 1..min(5, rowCount) otherwise: it has at most
\* 10 rows, takes no position twice, and for 6 to 10 rows omits row 6 onward.
C19_SampleRows ==
    sampleRows # None =>
        LET n == activeData[1].rowCount
            expected == IF n > 10
                        THEN [i \in 1..10 |-> IF i <= 5 THEN i ELSE n - 10 + i]
                        ELSE [i \in 1..(IF n < 5 THEN n ELSE 5) |-> i]
        IN /\ sampleRows[1].sampleRows =
                  [i \in 1..Len(expected) |-> activeData[1].rows[expected[i]]]
           /\ sampleRows[1].positions = expected
           /\ Len(sampleRows[1].sampleRows) <= 10
           /\ \A i, j \in 1..Len(sampleRows[1].positions) :
                  i # j => sampleRows[1].positions[i] # sampleRows[1].positions[j]
           /\ (n >= 6 /\ n <= 10) => \A i \in 1..Len(sampleRows[1].positions) :
                                         sampleRows[1].positions[i] < 6

C19_Witness ==
    /\ sampleRows # None
    /\ activeData[1].rowCount = 11
    /\ sampleRows[1].positions = <<1, 2, 3, 4, 5, 7, 8, 9, 10, 11>>

\* An attempt that fails: a type that is not supported, bytes that cannot be
\* decoded, or no record
Failing(f) == f.ext \notin Supported \/ ~f.ok \/ Len(f.rows) = 0

\* C20: when an attempt fails the page never receives a dataset: the
\* dataset stays unset, nothing derived from one is shown, and once the
\* handler has finished a message is shown.
C20_FailureSetsNothing ==
    (file # None /\ Failing(file[1])) =>
        /\ activeData = None
        /\ qualityIssues = <<>>
        /\ sampleRows = None
        /\ Settled => (upError # None /\ upError # Some("") /\ ~isProcessing)

C20_Witness ==
    /\ Settled
    /\ file[1].ext = "txt"
    /\ activeData = None
    /\ upError =
           Some("Unsupported file type. Please upload CSV, JSON, Excel, PDF, or Image files.")

(***************************************************************************)
(* Claims about the protocol of queryAI                                    *)
(***************************************************************************)
\* C22: a prompt is built and the remote service is called only with a
\* client, which takes a browser context, an API key and the SDK; in every
\* other case the call goes from getGeminiAI straight to the local
\* heuristic, with no prompt and no remote call.
C22_RemoteOnlyWithProvider ==
    /\ (prompted \/ remoteCalls > 0 \/ pc \in {"attemptRemote", "awaitRemote", "parse"}) =>
           (env.window /\ env.apiKey /\ env.sdk /\ genAI = "client")
    /\ (~(env.window /\ env.apiKey /\ env.sdk) /\ pc \notin {"idle", "getGeminiAI"}) =>
           /\ pc \in {"getMockResponse", "done"}
           /\ cause = "unavailable"
           /\ genAI = "null"

C22_Witness == pc = "awaitRemote" /\ prompted /\ remoteCalls = 1 /\ genAI = "client"

\* C23: the local heuristic is entered only from getGeminiAI finding no
\* provider or from a remote call that threw; the degraded Insight is
\* returned only from parsing a received response that fails to parse; once
\* a response was received the call completes without the local heuristic.
C23_ProtocolPaths ==
    [][/\ (pc' = "getMockResponse" /\ pc # "getMockResponse") =>
              \/ pc = "getGeminiAI" /\ genAI' = "null" /\ cause' = "unavailable"
              \/ pc = "awaitRemote" /\ remoteCalls = 1 /\ cause' = "error"
       /\ (path' = "local" /\ path # "local") => pc = "getMockResponse"
       /\ (path' = "degraded" /\ path # "degraded") =>
              (pc = "parse" /\ remoteCalls = 1 /\ ParseThrows(text) # "none")
       /\ pc = "parse" => (pc' \in {"parse", "done"} /\ path' # "local")]_vars

C23_Witness ==
    pc = "done" /\ path = "degraded" /\ remoteCalls = 1 /\ ParseThrows(text) = "JSON.parse"

\* The trend, correlation and distribution signals of a question
Signals(q) == <<Test(TrendRe, q), Test(CorrelationRe, q), Test(DistributionRe, q)>>

\* C29: the local heuristic's Insight depends on the question through its
\* trend, correlation and distribution signals only: every question with
\* the same three signals gets the same Insight on the same dataset,
\* whatever its comparison signal and its other words.
C29_InsightIgnoresComparison ==
    (Resolved /\ path = "local") =>
        \A q \in Questions :
            Signals(q) = Signals(question) => getMockResponse(q, data) = Insight

C29_Witness ==
    /\ Resolved
    /\ path = "local"
    /\ Test(ComparisonRe, question)
    /\ Test(TrendRe, question)
    /\ Len(data.summary.numericColumns) > 0
    /\ \E q \in Questions : Signals(q) = Signals(question) /\ ~Test(ComparisonRe, q)

(***************************************************************************)
(* Further claims about ingestion                                          *)
(***************************************************************************)
IssueRank(ty) == CASE ty = "missing" -> 1 [] ty = "invalid" -> 2 [] OTHER -> 3

\* The columns the outlier issues name, in the order of the issues
OutlierColumns ==
    [i \in 1..Len(IssuesOfType("outlier")) |-> IssuesOfType("outlier")[i].affectedColumns[1][1]]

\* C24: the issues come in a fixed order: the missing-data issue, then the
\* small-sample issue, which is there with severity high exactly when
\* rowCount < 10, then the outlier issues in the order of
\* summary.numericColumns, at most one for a column.
C24_IssueOrder ==
    activeData # None =>
        /\ \A i, j \in 1..Len(qualityIssues) :
               i < j => IssueRank(qualityIssues[i].type) <= IssueRank(qualityIssues[j].type)
        /\ Len(IssuesOfType("missing")) <= 1
        /\ Len(IssuesOfType("invalid")) = (IF activeData[1].rowCount < 10 THEN 1 ELSE 0)
        /\ \A i \in 1..Len(IssuesOfType("invalid")) :
               IssuesOfType("invalid")[i].severity = "high"
        /\ \A i \in 1..Len(IssuesOfType("outlier")) :
               /\ IssuesOfType("outlier")[i].affectedColumns # None
               /\ Len(IssuesOfType("outlier")[i].affectedColumns[1]) = 1
        /\ IsOrderedSublist(OutlierColumns, activeData[1].summary.numericColumns)

C24_Witness ==
    /\ activeData # None
    /\ activeData[1].rowCount = 6
    /\ Len(qualityIssues) = 4
    /\ [i \in 1..4 |-> qualityIssues[i].type] = <<"missing", "invalid", "outlier", "outlier">>
    /\ OutlierColumns = <<"a", "b">>

\* C28: a header whose cells are all null or absent in the first 10 rows is
\* typed number and listed in summary.numericColumns, whatever later rows
\* hold.
C28_EmptySampleIsNumber ==
    activeData # None =>
        \A h \in Range(activeData[1].headers) :
            (\A i \in 1..Len(activeData[1].rows) :
                 i <= 10 => \/ h \notin DOMAIN activeData[1].rows[i]
                            \/ activeData[1].rows[i][h] = Null) =>
                /\ activeData[1].columnTypes[h] = "number"
                /\ h \in Range(activeData[1].summary.numericColumns)

C28_Witness ==
    /\ activeData # None
    /\ activeData[1].rowCount = 11
    /\ activeData[1].summary.numericColumns = <<"a">>
    /\ \A i \in 1..11 : DOMAIN activeData[1].rows[i] = {"a"}
    /\ \A i \in 1..10 : activeData[1].rows[i]["a"] = Null
    /\ activeData[1].rows[11]["a"] = Str("abc")

\* C25: for extracted text with at least two non-blank lines the delimiter
\* handed to the tokenizer is the candidate, among comma, tab, pipe and
\* semicolon, that splits the first line into the most fields, the earliest
\* such candidate on a tie and the comma when none occurs, and the whole text
\* is tokenized with it; text with fewer lines is refused before a delimiter
\* is chosen.
C25_DelimiterChoice ==
    (Settled /\ file[1].ok /\ file[1].ext \in {"pdf", "png"}) =>
        IF file[1].lines < 2
        THEN bestDelimiter = None /\ activeData = None /\ upError # None
        ELSE /\ bestDelimiter # None
             /\ \E k \in 1..4 :
                    /\ bestDelimiter[1] = <<",", "\t", "|", ";">>[k]
                    /\ \A j \in 1..4 :
                           LET nk == Cardinality({i \in 1..Len(file[1].shape) :
                                       file[1].shape[i] = <<",", "\t", "|", ";">>[k]})
                               nj == Cardinality({i \in 1..Len(file[1].shape) :
                                       file[1].shape[i] = <<",", "\t", "|", ";">>[j]})
                           IN nj <= nk /\ (j < k => nj < nk)
                    /\ activeData # None
                    /\ activeData[1].rowCount = file[1].lines - 1
                    /\ Len(activeData[1].headers) =
                           1 + Cardinality({i \in 1..Len(file[1].shape) :
                                       file[1].shape[i] = <<",", "\t", "|", ";">>[k]})
                    /\ \A i \in 1..Len(activeData[1].rows) :
                           DOMAIN activeData[1].rows[i] = Range(activeData[1].headers)
             /\ file[1].shape = <<>> => bestDelimiter = Some(",")

C25_Witness ==
    /\ Settled
    /\ file[1].ext = "pdf"
    /\ file[1].shape = <<";", "|">>
    /\ bestDelimiter = Some("|")
    /\ activeData # None
    /\ activeData[1].headers = <<"a", "b">>
    /\ activeData[1].summary.textColumns = <<"a">>

(***************************************************************************)
(* The page: questions asked about the active dataset                      *)
(***************************************************************************)
\* HandleQuestionSubmit of an input that is not disabled while loading
HandleQuestionSubmit_WhileLoading(q, e) ==
    /\ activeData # None
    /\ now < MaxQuestions
    /\ isLoading' = TRUE
    /\ now' = now + 1
    /\ newQuestion' = Some([id |-> now', text |-> q, timestamp |-> now', response |-> None])
    /\ currentQuestion' = newQuestion'
    /\ question' = q
    /\ data' = activeData[1]
    /\ env' = e
    /\ pc' = "getGeminiAI"
    /\ CallReset
    /\ UNCHANGED <<history, localSeen>>
    /\ UNCHANGED ingestVars

\* handleSubmit / handleSuggestionClick of QuestionInput, which is rendered
\* with the dataset and calls onSubmit only when not loading, then
\* handleQuestionSubmit up to its await: queryAI(questionText, data) starts
\* in environment e.  The clock has advanced since the last submission.
HandleQuestionSubmit(q, e) ==
    /\ activeData # None
    /\ ~isLoading
    /\ now < MaxQuestions
    /\ isLoading' = TRUE
    /\ now' = now + 1
    /\ newQuestion' = Some([id |-> now', text |-> q, timestamp |-> now', response |-> None])
    /\ currentQuestion' = newQuestion'
    /\ question' = q
    /\ data' = activeData[1]
    /\ env' = e
    /\ pc' = "getGeminiAI"
    /\ CallReset
    /\ UNCHANGED <<history, localSeen>>
    /\ UNCHANGED ingestVars

\* QuestionSettles that appends the question as it was submitted
QuestionSettles_AppendsBare ==
    /\ isLoading
    /\ pc \in {"done", "rejected"}
    /\ currentQuestion' = (IF pc = "done"
                           THEN Some([newQuestion[1] EXCEPT !.response = result])
                           ELSE currentQuestion)
    /\ history' = (IF pc = "done" THEN Append(history, newQuestion[1]) ELSE history)
    /\ isLoading' = FALSE
    /\ newQuestion' = None
    /\ UNCHANGED now
    /\ UNCHANGED queryVars
    /\ UNCHANGED ingestVars

\* queryAI settled: the rest of the try block, or the catch block, then the
\* finally block of handleQuestionSubmit
QuestionSettles ==
    /\ isLoading
    /\ pc \in {"done", "rejected"}
    /\ currentQuestion' = (IF pc = "done"
                           THEN Some([newQuestion[1] EXCEPT !.response = result])
                           ELSE currentQuestion)
    /\ history' = (IF pc = "done"
                   THEN Append(history, [newQuestion[1] EXCEPT !.response = result])
                   ELSE history)
    /\ isLoading' = FALSE
    /\ newQuestion' = None
    /\ UNCHANGED now
    /\ UNCHANGED queryVars
    /\ UNCHANGED ingestVars

\* The files, questions, environments and remote texts of the page's runs
PageRemoteResponds ==
    \/ \E t \in {<<Json(JObject(<<>>))>>, <<Junk(3)>>} : RemoteResolves(t)
    \/ RemoteThrows("generateContent")

PageNext ==
    \/ \E f \in {File("txt", TRUE, TRUE, "array", <<>>),
                 File("csv", TRUE, TRUE, "array", MkRows(6, Ramp, 6, Num(100), "spike")),
                 File("json", TRUE, TRUE, "array", MkRows(20, Ramp, 1, Null, "ramp"))} :
           HandleFile(f)
    \/ OnDataParsed
    \/ ParseRejected
    \/ FormatDataForAI
    \/ \E q \in {<<"Trend">>, <<"vs">>},
          e \in {[window |-> TRUE, apiKey |-> FALSE, sdk |-> TRUE],
                 [window |-> TRUE, apiKey |-> TRUE, sdk |-> TRUE]} :
           HandleQuestionSubmit(q, e)
    \/ GetGeminiAI
    \/ AttemptRemote
    \/ PageRemoteResponds
    \/ ParseRemote(0)
    \/ MockResponse
    \/ QuestionSettles

\* The event loop runs every continuation that is ready, the timer of
\* getMockResponse fires, and the remote call settles one way or the other.
PageFairSpec ==
    /\ IngestInit
    /\ [][PageNext]_vars
    /\ WF_vars(GetGeminiAI)
    /\ WF_vars(AttemptRemote)
    /\ WF_vars(PageRemoteResponds)
    /\ WF_vars(ParseRemote(0))
    /\ WF_vars(MockResponse)
    /\ WF_vars(QuestionSettles)

(***************************************************************************)
(* Claims about the page                                                   *)
(***************************************************************************)
InFlight == pc \in {"getGeminiAI", "attemptRemote", "awaitRemote", "parse", "getMockResponse"}

\* C21: detectQualityIssues, formatDataForAI and queryAI leave the dataset
\* as it was: once set, the page's dataset keeps its headers, rows, rowCount,
\* columnTypes and summary through every step, and so does the dataset a
\* queryAI call was given while the call runs.
C21_DatasetUnchanged ==
    [][/\ activeData # None => activeData' = activeData
       /\ InFlight => data' = data]_vars

C21_Witness ==
    /\ activeData # None
    /\ qualityIssues # <<>>
    /\ sampleRows # None
    /\ Len(history) = 2
    /\ history[1].response[1].metadata.modelUsed = "mock-response"
    /\ data = activeData[1]

\* C26: the page has one dataset: setting it clears the current question
\* and the history, a question is asked and answered only against the
\* dataset the page holds, and so every entry of the history was answered
\* against that dataset.
C26_SingleActiveDataset ==
    /\ []((history # <<>> \/ currentQuestion # None \/ isLoading) => activeData # None)
    /\ [](isLoading => data = activeData[1])
    /\ [][/\ activeData' # activeData => (currentQuestion' = None /\ history' = <<>>)
          /\ Len(history') > Len(history) =>
                 (data = activeData[1] /\ activeData' = activeData)]_vars

C26_Witness ==
    /\ activeData # None
    /\ activeData[1].rowCount = 6
    /\ Len(history) = 2
    /\ ~isLoading
    /\ history[2] = currentQuestion[1]

\* C27: one computation at most is in flight: a call of queryAI runs only
\* while the page is loading, no question is submitted while it is loading,
\* and the response shown with the current question is the result of the
\* question submitted last.
C27_SingleFlight ==
    /\ [](InFlight => (isLoading /\ newQuestion # None /\ newQuestion[1].text = question))
    /\ []((currentQuestion # None /\ currentQuestion[1].response # None) =>
              /\ currentQuestion[1].text = question
              /\ currentQuestion[1].id = now
              /\ currentQuestion[1].response = result)
    /\ [][isLoading => (question' = question /\ now' = now /\ newQuestion' \in {newQuestion, None})]_vars

C27_Witness ==
    /\ Len(history) = 1
    /\ isLoading
    /\ pc = "awaitRemote"
    /\ currentQuestion # None
    /\ currentQuestion[1].response = None
    /\ currentQuestion[1].text # history[1].text

====
